---- MODULE Spec2Model ----
(***************************************************************************)
(* PlotNi VPN server (plotni_server.py): the frame codec (encrypt/decrypt) *)
(* and the per-connection tunnel session (handle_client, relay_to_client). *)
(*                                                                         *)
(* Byte strings are sequences of 0..255.  A WebSocket message is a record  *)
(* [bin, data]: bin = TRUE for a binary message (Python bytes), FALSE for  *)
(* a text message (Python str).                                            *)
(***************************************************************************)
EXTENDS Integers, Sequences, FiniteSets, TLC

\* ------------------------------------------------------------------ bounds
MaxMsgLen == 18         \* longest plaintext drawn by the codec specification
MaxChunk == 2           \* scaled stand-in for the 4096 of reader.read(4096)
MaxTargetBytes == 2     \* bytes the target writes (one connection)
MaxInbox == 1           \* client messages queued ahead of the handler
MaxClientMsgs == 3      \* messages the client sends (one connection)
ConcTargetBytes == 1    \* bytes the targets write (two connections)
ConcClientMsgs == 2     \* messages the clients send (two connections)
LiveTargetBytes == 1    \* bytes the target writes (fair specification)
LiveClientMsgs == 2     \* messages the client sends (fair specification)

\* --------------------------------------------------------- program constants
IVSize == 16            \* os.urandom(16), data[:16]
BlockSize == 16         \* AES.block_size
KeySize == 32           \* length of a sha256 digest

\* ------------------------------------------------------------ byte helpers
Take(s, n) == SubSeq(s, 1, IF n < Len(s) THEN n ELSE Len(s))
Drop(s, n) == SubSeq(s, n + 1, Len(s))
Rep(b, n) == [i \in 1..n |-> b]

\* Op applied to the value of v (v is evaluated once)
With(v, Op(_)) == CHOOSE r \in { Op(w) : w \in {v} } : TRUE

RECURSIVE Xor(_, _)
Xor(a, b) ==
    IF a = 0 THEN b
    ELSE IF b = 0 THEN a
    ELSE (((a % 2) + (b % 2)) % 2) + 2 * Xor(a \div 2, b \div 2)

XorBlock(x, y) ==
    With(<<x, y>>, LAMBDA p : [i \in 1..BlockSize |-> Xor(p[1][i], p[2][i])])

\* ---------------------------------------------------------- key derivation
\* hashlib.sha256(secret.encode()).digest(): a deterministic 32-byte digest
\* of the secret.  The hash itself is a library primitive; it is modelled by
\* a deterministic mixing function with the same shape (bytes -> 32 bytes).
RECURSIVE Sum(_)
Sum(s) == IF s = <<>> THEN 0 ELSE s[1] + Sum(Tail(s))

derive_key(secret) ==
    [i \in 1..KeySize |-> (Sum(secret) * i + 31 * i * i + Len(secret)) % 256]

\* ------------------------------------------------------------- block cipher
\* AES.new(key, AES.MODE_CBC, iv): the block primitive is a keyed bijection
\* on 16-byte blocks; it is modelled by a keyed rotate-and-add bijection.
aes_block_encrypt(key, b) ==
    With(b, LAMBDA v :
        [i \in 1..BlockSize |->
            (v[(i % BlockSize) + 1] + key[i] + key[i + BlockSize]) % 256])

aes_block_decrypt(key, c) ==
    With(c, LAMBDA v :
        [j \in 1..BlockSize |->
            LET i == ((j + BlockSize - 2) % BlockSize) + 1
            IN  (v[i] - key[i] - key[i + BlockSize]) % 256])

RECURSIVE cbc_encrypt(_, _, _)
cbc_encrypt(key, prev, data) ==
    IF data = <<>> THEN <<>>
    ELSE With(aes_block_encrypt(key, XorBlock(Take(data, BlockSize), prev)) \o <<>>,
              LAMBDA c : c \o cbc_encrypt(key, c, Drop(data, BlockSize)))

RECURSIVE cbc_decrypt(_, _, _)
cbc_decrypt(key, prev, ct) ==
    IF ct = <<>> THEN <<>>
    ELSE With(Take(ct, BlockSize),
              LAMBDA c : XorBlock(aes_block_decrypt(key, c), prev)
                             \o cbc_decrypt(key, c, Drop(ct, BlockSize)))

\* ------------------------------------------------------------------ padding
\* Crypto.Util.Padding.pad(data, 16): PKCS#7, always adds 1..16 bytes.
padNoFullBlock(data, bs) ==
    LET n == (bs - (Len(data) % bs)) % bs IN data \o Rep(n, n)

pad(data, bs) ==
    LET n == bs - (Len(data) % bs) IN data \o Rep(n, n)

\* An operation either returns a value or raises: [ok |-> TRUE, val |-> v]
\* or [ok |-> FALSE, val |-> <<>>].
Ret(v) == [ok |-> TRUE, val |-> v]
Raise == [ok |-> FALSE, val |-> <<>>]

\* Crypto.Util.Padding.unpad(data, 16): raises ValueError on a zero-length
\* input, a length that is not a multiple of the block size, a padding
\* length outside 1..min(bs, len), or padding bytes that are not all equal.
unpad(data, bs) ==
    With(data, LAMBDA d :
        IF Len(d) = 0 THEN Raise
        ELSE IF Len(d) % bs # 0 THEN Raise
        ELSE LET n == d[Len(d)] IN
             IF n < 1 \/ n > bs \/ n > Len(d) THEN Raise
             ELSE IF \E i \in (Len(d) - n + 1)..Len(d) : d[i] # n THEN Raise
             ELSE Ret(Take(d, Len(d) - n)))

\* -------------------------------------------------------------- frame codec
\* encrypt(data, key): identity without the cipher library, otherwise
\* iv + CBC(pad(data)); iv is the value os.urandom(16) returned.
encrypt(data, key, iv, crypto) ==
    IF ~crypto THEN data
    ELSE With(pad(data, BlockSize), LAMBDA p : iv \o cbc_encrypt(key, iv, p))

\* decrypt(data, key) on the bytes of a message.  AES.new raises ValueError
\* when the IV is not 16 bytes long, cipher.decrypt raises ValueError when
\* the body is not a multiple of 16 bytes, unpad raises as above.
decryptNoLengthCheck(data, key, crypto) ==
    With(data, LAMBDA d :
        IF ~crypto THEN Ret(d)
        ELSE LET iv0 == Take(d, IVSize)
                 iv == iv0 \o Rep(0, IVSize - Len(iv0))
                 body == Drop(d, IVSize)
             IN  IF Len(body) % BlockSize # 0 THEN Raise
                 ELSE IF body = <<>> THEN Ret(<<>>)
                 ELSE unpad(cbc_decrypt(key, iv, body), BlockSize))

decrypt(data, key, crypto) ==
    With(data, LAMBDA d :
        IF ~crypto THEN Ret(d)
        ELSE LET iv == Take(d, IVSize)
                 body == Drop(d, IVSize)
             IN  IF Len(iv) # IVSize THEN Raise
                 ELSE IF Len(body) % BlockSize # 0 THEN Raise
                 ELSE unpad(cbc_decrypt(key, iv, body), BlockSize))

\* ------------------------------------------------------- handshake parsing
\* Sample documents, as the bytes of their text.
\* {"host":"h","port":80}
ReqOk == <<123, 34, 104, 111, 115, 116, 34, 58, 34, 104, 34, 44, 34, 112, 111, 114, 116, 34, 58, 56, 48, 125>>
\* {"host":"h","port":"80"}
ReqStrPort == <<123, 34, 104, 111, 115, 116, 34, 58, 34, 104, 34, 44, 34, 112, 111, 114, 116, 34, 58, 34, 56, 48, 34, 125>>
\* {"host":"h","port":"x"}
ReqBadPort == <<123, 34, 104, 111, 115, 116, 34, 58, 34, 104, 34, 44, 34, 112, 111, 114, 116, 34, 58, 34, 120, 34, 125>>
\* {"port":80}
ReqNoHost == <<123, 34, 112, 111, 114, 116, 34, 58, 56, 48, 125>>
\* {"host":"h"}
ReqNoPort == <<123, 34, 104, 111, 115, 116, 34, 58, 34, 104, 34, 125>>
\* host
ReqNotJson == <<104, 111, 115, 116>>
\* {"host":"h","port":70000}
ReqBigPort == <<123, 34, 104, 111, 115, 116, 34, 58, 34, 104, 34, 44, 34, 112, 111, 114, 116, 34, 58, 55, 48, 48, 48, 48, 125>>
\* {"host":"","port":80}
ReqEmptyHost == <<123, 34, 104, 111, 115, 116, 34, 58, 34, 34, 44, 34, 112, 111, 114, 116, 34, 58, 56, 48, 125>>
\* json.dumps({"error": str(e)}) with the one-character message "e":
\* {"error": "e"}
ErrorDoc == <<123, 34, 101, 114, 114, 111, 114, 34, 58, 32, 34, 101, 34, 125>>
\* b"OK"
OkBytes == <<79, 75>>

RequestDocs ==
    { ReqOk, ReqStrPort, ReqBadPort, ReqNoHost, ReqNoPort, ReqNotJson,
      ReqBigPort, ReqEmptyHost }

\* JSON values: a string or an integer; an object is a function from its
\* field names to values.
JStr(s) == [t |-> "str", s |-> s, n |-> 0]
JInt(n) == [t |-> "int", s |-> <<>>, n |-> n]

\* bytes.decode(): UTF-8.  On the sampled byte strings (ASCII text, and
\* cipher or target bytes) a byte >= 0x80 is never part of a valid sequence.
bytes_decode(b) ==
    IF \E i \in 1..Len(b) : b[i] >= 128 THEN Raise ELSE Ret(b)

\* json.loads restricted to the sampled texts; every other sampled text
\* (a relay payload, b"OK", garbage) is not JSON and raises JSONDecodeError.
json_loads(text) ==
    CASE text = ReqOk        -> Ret([host |-> JStr(<<104>>), port |-> JInt(80)])
      [] text = ReqStrPort   -> Ret([host |-> JStr(<<104>>), port |-> JStr(<<56, 48>>)])
      [] text = ReqBadPort   -> Ret([host |-> JStr(<<104>>), port |-> JStr(<<120>>)])
      [] text = ReqNoHost    -> Ret([port |-> JInt(80)])
      [] text = ReqNoPort    -> Ret([host |-> JStr(<<104>>)])
      [] text = ReqBigPort   -> Ret([host |-> JStr(<<104>>), port |-> JInt(70000)])
      [] text = ReqEmptyHost -> Ret([host |-> JStr(<<>>), port |-> JInt(80)])
      [] text = ErrorDoc     -> Ret([error |-> JStr(<<101>>)])
      [] OTHER               -> Raise

\* int(x): an int is returned as is; a str must be a decimal literal
\* (digits only in the sampled documents), otherwise ValueError.
RECURSIVE DecimalValue(_)
DecimalValue(s) ==
    IF s = <<>> THEN 0 ELSE 10 * DecimalValue(SubSeq(s, 1, Len(s) - 1)) + (s[Len(s)] - 48)

py_int(v) ==
    IF v.t = "int" THEN Ret(v.n)
    ELSE IF v.s # <<>> /\ \A i \in 1..Len(v.s) : v.s[i] \in 48..57
         THEN Ret(DecimalValue(v.s))
         ELSE Raise

Msg(bin, data) == [bin |-> bin, data |-> data]

NoTarget == [host |-> <<>>, port |-> -1]

\* Lines 89-92: decrypt, decode, json.loads, info["host"], int(info["port"]).
\* A text message raises too: TypeError in AES.new on a str IV, or
\* AttributeError on str.decode() in plaintext mode.
parse_request(msg, key, crypto) ==
    IF ~msg.bin THEN Raise
    ELSE With(decrypt(msg.data, key, crypto), LAMBDA d :
    IF ~d.ok THEN Raise
    ELSE With(bytes_decode(d.val), LAMBDA t :
    IF ~t.ok THEN Raise
    ELSE With(json_loads(t.val), LAMBDA j :
    IF ~j.ok THEN Raise
    ELSE IF "host" \notin DOMAIN j.val THEN Raise
    ELSE IF "port" \notin DOMAIN j.val THEN Raise
    ELSE With(py_int(j.val["port"]), LAMBDA p :
    IF ~p.ok THEN Raise
    ELSE Ret([host |-> j.val["host"].s, port |-> p.val])))))

\* asyncio.open_connection(host, port) can only succeed for a port in
\* 1..65535; whether it then succeeds is up to the network.
Connectable(t) == t.port \in 1..65535

\* --------------------------------------------------------- sampled inputs
Secrets == { <<112, 108, 111, 116, 110, 105>>, <<116, 101, 115, 116>> }
Keys == { derive_key(s) : s \in Secrets }
IVs == { Rep(0, IVSize), [i \in 1..IVSize |-> (37 * i + 201) % 256] }

\* non-empty plaintexts of every length 1..MaxMsgLen, three fillings each
CodecMsgs ==
    { [i \in 1..n |-> (a * i + b) % 256] :
        n \in 1..MaxMsgLen, a \in {0, 1}, b \in {16, 255} }

\* SECRET_KEY default: "plotni-secret-key-change-this"
SECRET_KEY ==
    <<112, 108, 111, 116, 110, 105, 45, 115, 101, 99, 114, 101, 116, 45, 107,
      101, 121, 45, 99, 104, 97, 110, 103, 101, 45, 116, 104, 105, 115>>

Sessions == {1, 2}

VARIABLES
    CRYPTO_OK,      \* TRUE iff the import of Crypto succeeded
    sess,           \* one record per accepted connection (see InitSession)
    env,            \* what the environment may still do: connections to
                    \* open, client messages to send, target bytes to write,
                    \* and whether the clients draw from the reduced frame set
    cPhase,         \* codec harness: "in", "enc", "dec"
    cMsg, cKey,     \* codec harness: the plaintext and the key
    cIv,            \* codec harness: the IV os.urandom returned
    cCt,            \* codec harness: result of encrypt
    cOut            \* codec harness: result of decrypt

codecVars == <<cPhase, cMsg, cKey, cIv, cCt, cOut>>
vars == <<CRYPTO_OK, sess, env, codecVars>>

\* The state of one connection:
\*   pc       position of handle_client: idle (not accepted), hs_recv (88),
\*            connect (96), send_ok (99), ok_drain (99), loop (105),
\*            drain (109), err_send (117), finally (121), wait_closed (124),
\*            done (handler returned, the library closed the WebSocket),
\*            crashed (an exception left handle_client)
\*   relay    relay_task: none, read (68), drain (72), eof (broke out of the
\*            loop at 70), failed (left through except at 73), cancelled (111)
\*   ws       client connection: none, open, closedOK / closedErr (closed by
\*            the client, normally / abnormally), srvClosed
\*   inbox    client messages not yet received by the handler
\*   csent    number of messages the client has sent
\*   sent     frames written to the client connection, [kind, wire]
\*   target   host and port of the handshake
\*   raw      raw connection: none, open, eof (target closed), reset
\*            (transport error), closed (writer.close())
\*   rbuf     bytes received from the target, not yet read
\*   tcount   number of bytes the target has written
\*   readLog  the chunks reader.read has returned, in order
\*   hs       outcome of lines 88-92: none, ok, bad (the first message did
\*            not yield a destination), closed (recv raised)
\*   lastDec  the last decrypt call of the handler: length of its input
\*            (-1 before the first call) and whether it returned
\*   recvd    messages the handler received inside the relay loop
\*   pending  bytes passed to writer.write and not yet drained
\*   rawOut   bytes delivered to the target
\*   errAttempts   number of ws.send(err) calls at line 117
\*   connAttempts  number of open_connection calls
\*   closeErr the close of the raw connection failed (wait_closed raises)
InitSession ==
    [pc |-> "idle", relay |-> "none", ws |-> "none", inbox |-> <<>>,
     csent |-> 0, sent |-> <<>>, target |-> NoTarget, raw |-> "none",
     rbuf |-> <<>>, tcount |-> 0, readLog |-> <<>>, recvd |-> <<>>,
     pending |-> <<>>, rawOut |-> <<>>, errAttempts |-> 0, connAttempts |-> 0,
     hs |-> "none", lastDec |-> [n |-> -1, ok |-> FALSE], closeErr |-> FALSE]

\* ------------------------------------------- codec specification (pure fns)
CodecIdle ==
    /\ cPhase = "in" /\ cMsg = <<>> /\ cKey = <<>> /\ cIv = <<>>
    /\ cCt = <<>> /\ cOut = Raise

CodecInit ==
    /\ CRYPTO_OK \in BOOLEAN
    /\ cPhase = "in"
    /\ cMsg \in CodecMsgs
    /\ cKey \in Keys
    /\ cIv = <<>> /\ cCt = <<>> /\ cOut = Raise
    /\ sess = [s \in Sessions |-> InitSession]
    /\ env = [conns |-> 0, msgs |-> 0, bytes |-> 0, few |-> TRUE]

CodecEncrypt ==
    /\ cPhase = "in"
    /\ \E iv \in IVs :
         /\ cIv' = iv
         /\ cCt' = encrypt(cMsg, cKey, iv, CRYPTO_OK)
    /\ cPhase' = "enc"
    /\ UNCHANGED <<CRYPTO_OK, sess, env, cMsg, cKey, cOut>>

CodecDecrypt ==
    /\ cPhase = "enc"
    /\ cOut' = decrypt(cCt, cKey, CRYPTO_OK)
    /\ cPhase' = "dec"
    /\ UNCHANGED <<CRYPTO_OK, sess, env, cMsg, cKey, cIv, cCt>>

CodecNext == CodecEncrypt \/ CodecDecrypt

CodecSpec == CodecInit /\ [][CodecNext]_vars

\* C8: decrypt(encrypt(M, K), K) = M for every non-empty M and key K; in
\* encrypted mode the result of encrypt is the IV followed by a whole number
\* of cipher blocks, in plaintext-fallback mode both operations are the
\* identity.
C8_RoundTrip ==
    /\ cPhase \in {"enc", "dec"} =>
         IF CRYPTO_OK
         THEN /\ Take(cCt, IVSize) = cIv
              /\ Len(cCt) = IVSize + BlockSize * ((Len(cMsg) \div BlockSize) + 1)
         ELSE cCt = cMsg
    /\ cPhase = "dec" => (cOut.ok /\ cOut.val = cMsg)

C8_Witness ==
    /\ cPhase = "dec" /\ CRYPTO_OK /\ Len(cMsg) = BlockSize
    /\ cOut = Ret(cMsg) /\ cCt # cMsg


\* ---------------------------------------------------- session specification
key == derive_key(SECRET_KEY)

\* The IV the client uses for the frames it builds.
ClientIV == [i \in 1..IVSize |-> (11 * i + 3) % 256]

Payloads == { <<10>>, <<20, 21>> }

\* a frame shorter than the IV, and an IV followed by one garbage block
ShortFrame == Msg(TRUE, <<1, 2, 3>>)
GarbageFrame == Msg(TRUE, Rep(7, IVSize + BlockSize))
TextFrame == Msg(FALSE, ReqOk)
MalformedFrames == { ShortFrame, GarbageFrame, TextFrame }

\* what a client holding the key sends, in either codec mode
EncFrames == [d \in RequestDocs \cup Payloads |-> Msg(TRUE, encrypt(d, key, ClientIV, TRUE))]
PlainFrames == [d \in RequestDocs \cup Payloads |-> Msg(TRUE, d)]
ClientFrame(d) == IF CRYPTO_OK THEN EncFrames[d] ELSE PlainFrames[d]

\* env.few restricts the clients to a few representative frames
HandshakeFrames ==
    IF env.few THEN { ClientFrame(ReqOk), ClientFrame(ReqNoPort), GarbageFrame }
    ELSE { ClientFrame(d) : d \in RequestDocs } \cup MalformedFrames

RelayFrames ==
    IF env.few THEN { ClientFrame(<<10>>), ShortFrame }
    ELSE { ClientFrame(d) : d \in Payloads } \cup { ShortFrame, TextFrame }

Frame(kind, wire) == [kind |-> kind, wire |-> wire]

\* os.urandom(16) inside a session: the n-th frame of a connection gets the
\* n-th value of a fixed sample of the random source (fresh for every call).
Urandom(r) == { [i \in 1..IVSize |-> (37 * i + 201 + 16 * Len(r.sent)) % 256] }

\* A step of connection s replaces its record; nothing else is shared.
UpdShared(s, r) ==
    /\ sess' = [t \in Sessions |-> IF t = s THEN r ELSE [sess[t] EXCEPT !.ws = r.ws]]
    /\ UNCHANGED <<CRYPTO_OK, codecVars>>

Upd(s, r) ==
    /\ sess' = [sess EXCEPT ![s] = r]
    /\ UNCHANGED <<CRYPTO_OK, codecVars>>

Init ==
    /\ CRYPTO_OK \in BOOLEAN
    /\ sess = [s \in Sessions |-> InitSession]
    /\ env = [conns |-> 1, msgs |-> MaxClientMsgs, bytes |-> MaxTargetBytes, few |-> FALSE]
    /\ CodecIdle

\* two concurrent connections
ConcInit ==
    /\ CRYPTO_OK \in BOOLEAN
    /\ sess = [s \in Sessions |-> InitSession]
    /\ env = [conns |-> 2, msgs |-> ConcClientMsgs, bytes |-> ConcTargetBytes, few |-> TRUE]
    /\ CodecIdle

\* websockets.serve: the listener accepts a connection and spawns
\* handle_client for it.
Accept(s) ==
    /\ sess[s].pc = "idle"
    /\ env.conns > 0
    /\ \A t \in Sessions : t < s => sess[t].pc # "idle"
    /\ Upd(s, [sess[s] EXCEPT !.pc = "hs_recv", !.ws = "open"])
    /\ env' = [env EXCEPT !.conns = @ - 1]

\* ----- environment: the client
ClientSend(s, m) ==
    /\ sess[s].ws = "open"
    /\ env.msgs > 0
    /\ Len(sess[s].inbox) < MaxInbox
    /\ m \in (IF sess[s].csent = 0 THEN HandshakeFrames ELSE RelayFrames)
    /\ Upd(s, [sess[s] EXCEPT !.inbox = Append(@, m), !.csent = @ + 1])
    /\ env' = [env EXCEPT !.msgs = @ - 1]

ClientClose(s, how) ==
    /\ sess[s].ws = "open"
    /\ how \in {"closedOK", "closedErr"}
    /\ Upd(s, [sess[s] EXCEPT !.ws = how])
    /\ UNCHANGED env

\* ----- environment: the target
TargetSend(s) ==
    /\ sess[s].raw = "open"
    /\ env.bytes > 0
    /\ Upd(s, [sess[s] EXCEPT !.rbuf = Append(@, 65 + sess[s].tcount),
                               !.tcount = @ + 1])
    /\ env' = [env EXCEPT !.bytes = @ - 1]

TargetClose(s, how) ==
    /\ sess[s].raw = "open"
    /\ how \in {"eof", "reset"}
    /\ Upd(s, [sess[s] EXCEPT !.raw = how])
    /\ UNCHANGED env

\* ----- handle_client
\* An exception inside the try block: control moves to the except clause.
ExceptRestarts(r) == [r EXCEPT !.pc = "hs_recv"]

Except(r) == [r EXCEPT !.pc = "err_send"]

\* the decrypt call of the handler, as seen from outside
DecLog(m) ==
    IF CRYPTO_OK /\ ~m.bin THEN [n |-> Len(m.data), ok |-> FALSE]
    ELSE [n |-> Len(m.data), ok |-> decrypt(m.data, key, CRYPTO_OK).ok]

\* Lines 89-93: a destination is extracted, or an exception is raised.
HsOutcomeNoAbort(r, res) ==
    IF res.ok THEN [r EXCEPT !.pc = "connect", !.target = res.val, !.hs = "ok"]
    ELSE [r EXCEPT !.pc = "connect", !.hs = "bad"]

HsOutcome(r, res) ==
    IF res.ok THEN [r EXCEPT !.pc = "connect", !.target = res.val, !.hs = "ok"]
    ELSE Except([r EXCEPT !.hs = "bad"])

\* Lines 88-92: receive the first message and parse the destination.
HsRecv(s) ==
    /\ sess[s].pc = "hs_recv"
    /\ UNCHANGED env
    /\ IF sess[s].inbox # <<>>
       THEN LET m == Head(sess[s].inbox)
                rest == [sess[s] EXCEPT !.inbox = Tail(@), !.lastDec = DecLog(m)]
            IN  Upd(s, HsOutcome(rest, parse_request(m, key, CRYPTO_OK)))
       ELSE /\ sess[s].ws \in {"closedOK", "closedErr"}
            /\ Upd(s, Except([sess[s] EXCEPT !.hs = "closed"]))

\* Line 96: open_connection.
ConnectOutcomeIgnored(s, ok) ==
    Upd(s, [sess[s] EXCEPT !.connAttempts = @ + 1, !.pc = "send_ok",
                           !.raw = IF ok THEN "open" ELSE @])

ConnectOutcome(s, ok) ==
    LET r == [sess[s] EXCEPT !.connAttempts = @ + 1]
    IN  IF ok THEN Upd(s, [r EXCEPT !.pc = "send_ok", !.raw = "open"])
        ELSE Upd(s, Except(r))

Connect(s) ==
    /\ sess[s].pc = "connect"
    /\ UNCHANGED env
    /\ \E ok \in BOOLEAN :
         /\ ok => Connectable(sess[s].target)
         /\ ConnectOutcome(s, ok)

\* ws.send(frame): raises ConnectionClosed unless the connection is open,
\* otherwise writes the frame.
WsSend(r, kind, wire) == [r EXCEPT !.sent = Append(@, Frame(kind, wire))]

\* Line 99: send the acknowledgment.
SendOk(s) ==
    /\ sess[s].pc = "send_ok"
    /\ UNCHANGED env
    /\ IF sess[s].ws = "open"
       THEN \E iv \in Urandom(sess[s]) :
              Upd(s, [WsSend(sess[s], "ok", encrypt(OkBytes, key, iv, CRYPTO_OK))
                        EXCEPT !.pc = "ok_drain"])
       ELSE Upd(s, Except(sess[s]))

\* Lines 99-103: the send completes, the relay task is created.
OkDrain(s) ==
    /\ sess[s].pc = "ok_drain"
    /\ UNCHANGED env
    /\ IF sess[s].ws = "open"
       THEN Upd(s, [sess[s] EXCEPT !.pc = "loop", !.relay = "read"])
       ELSE Upd(s, Except(sess[s]))

\* relay_task.cancel() (line 111)
Cancel(r) ==
    [r EXCEPT !.relay = IF @ \in {"read", "drain"} THEN "cancelled" ELSE @]

\* Lines 105-108 and 111: one iteration of "async for message in ws".
LoopMessageNoTypeCheck(s) ==
    LET m == Head(sess[s].inbox)
        r == [sess[s] EXCEPT !.inbox = Tail(@), !.recvd = Append(@, m)]
        d == decrypt(m.data, key, CRYPTO_OK)
        r2 == [r EXCEPT !.lastDec = [n |-> Len(m.data), ok |-> d.ok]]
    IN  IF d.ok
        THEN Upd(s, [r2 EXCEPT !.pc = "drain", !.pending = d.val])
        ELSE Upd(s, Except(r2))

LoopMessageSkipsBad(s) ==
    LET m == Head(sess[s].inbox)
        r == [sess[s] EXCEPT !.inbox = Tail(@), !.recvd = Append(@, m)]
    IN  IF ~m.bin THEN Upd(s, r)
        ELSE LET d == decrypt(m.data, key, CRYPTO_OK)
                 r2 == [r EXCEPT !.lastDec = [n |-> Len(m.data), ok |-> d.ok]]
             IN  IF d.ok
                 THEN Upd(s, [r2 EXCEPT !.pc = "drain", !.pending = d.val])
                 ELSE Upd(s, r2)

LoopMessage(s) ==
    LET m == Head(sess[s].inbox)
        r == [sess[s] EXCEPT !.inbox = Tail(@), !.recvd = Append(@, m)]
    IN  IF ~m.bin THEN Upd(s, r)
        ELSE LET d == decrypt(m.data, key, CRYPTO_OK)
                 r2 == [r EXCEPT !.lastDec = [n |-> Len(m.data), ok |-> d.ok]]
             IN  IF d.ok
                 THEN Upd(s, [r2 EXCEPT !.pc = "drain", !.pending = d.val])
                 ELSE Upd(s, Except(r2))

LoopIgnoresClose(s) ==
    /\ sess[s].pc = "loop"
    /\ UNCHANGED env
    /\ sess[s].inbox # <<>>
    /\ LoopMessage(s)

Loop(s) ==
    /\ sess[s].pc = "loop"
    /\ UNCHANGED env
    /\ IF sess[s].inbox # <<>> THEN LoopMessage(s)
       ELSE \/ /\ sess[s].ws = "closedOK"
               /\ Upd(s, [Cancel(sess[s]) EXCEPT !.pc = "finally"])
            \/ /\ sess[s].ws = "closedErr"
               /\ Upd(s, Except(sess[s]))

\* Line 109: writer.drain() returns once the bytes are written, or raises
\* when the transport is gone.
DrainSkipped(s) ==
    /\ sess[s].pc = "drain"
    /\ UNCHANGED env
    /\ Upd(s, [sess[s] EXCEPT !.pc = "loop"])

Drain(s) ==
    /\ sess[s].pc = "drain"
    /\ UNCHANGED env
    /\ IF sess[s].raw \in {"open", "eof"}
       THEN Upd(s, [sess[s] EXCEPT !.rawOut = @ \o sess[s].pending,
                                   !.pending = <<>>, !.pc = "loop"])
       ELSE Upd(s, Except([sess[s] EXCEPT !.pending = <<>>]))

\* Lines 113-119: the except clause sends one error frame; a failure of that
\* send is swallowed.
ErrSendSkipped(s) ==
    /\ sess[s].pc = "err_send"
    /\ UNCHANGED env
    /\ Upd(s, [sess[s] EXCEPT !.pc = "finally"])

ErrSend(s) ==
    /\ sess[s].pc = "err_send"
    /\ UNCHANGED env
    /\ LET r == [sess[s] EXCEPT !.errAttempts = @ + 1, !.pc = "finally"]
       IN  IF sess[s].ws = "open"
           THEN \E iv \in Urandom(sess[s]) :
                  Upd(s, WsSend(r, "err", encrypt(ErrorDoc, key, iv, CRYPTO_OK)))
           ELSE Upd(s, r)

\* The handler returns; the library then closes the client connection.
Return(r) ==
    [r EXCEPT !.pc = "done", !.ws = IF @ = "open" THEN "srvClosed" ELSE @]

\* Lines 120-123: writer.close() when a raw connection was opened.  The
\* transport is closed in any case; a transport that was lost with an error
\* makes the close operation fail: wait_closed() will raise that error.
Finally(s) ==
    /\ sess[s].pc = "finally"
    /\ UNCHANGED env
    /\ IF sess[s].raw # "none"
       THEN Upd(s, [sess[s] EXCEPT !.raw = "closed", !.pc = "wait_closed",
                                   !.closeErr = (sess[s].raw = "reset")])
       ELSE Upd(s, Return(sess[s]))

\* Lines 124-127: wait_closed() completes, or raises and the exception is
\* swallowed at 125-126; the handler returns either way.
WaitClosedRaises(s) ==
    /\ sess[s].pc = "wait_closed"
    /\ UNCHANGED env
    /\ IF sess[s].closeErr THEN Upd(s, [sess[s] EXCEPT !.pc = "crashed"])
       ELSE Upd(s, Return(sess[s]))

WaitClosed(s) ==
    /\ sess[s].pc = "wait_closed"
    /\ UNCHANGED env
    /\ IF sess[s].closeErr THEN Upd(s, Return(sess[s]))
       ELSE Upd(s, Return(sess[s]))

\* ----- relay_to_client
\* Lines 68-72: reader.read(4096) returns buffered bytes, or b"" at end of
\* stream, or raises after a transport error; a chunk is encrypted and sent.
ReadChunk(buf) == Take(buf, MaxChunk)

\* Lines 71-72: encrypt the chunk and send it.
RelaySendRaw(r, chunk, iv) ==
    [WsSend(r, "data", chunk) EXCEPT !.relay = "drain"]

RelaySend(r, chunk, iv) ==
    [WsSend(r, "data", encrypt(chunk, key, iv, CRYPTO_OK)) EXCEPT !.relay = "drain"]

RelayReadNoEofCheck(s) ==
    /\ sess[s].relay = "read"
    /\ UNCHANGED env
    /\ IF sess[s].raw = "reset"
       THEN Upd(s, [sess[s] EXCEPT !.relay = "failed"])
       ELSE /\ sess[s].rbuf # <<>> \/ sess[s].raw \in {"eof", "closed"}
            /\ LET chunk == ReadChunk(sess[s].rbuf)
                   r == [sess[s] EXCEPT !.rbuf = Drop(@, Len(chunk)),
                                        !.readLog = Append(@, chunk)]
               IN  IF sess[s].ws = "open"
                   THEN \E iv \in Urandom(sess[s]) : Upd(s, RelaySend(r, chunk, iv))
                   ELSE Upd(s, [r EXCEPT !.relay = "failed"])

RelayRead(s) ==
    /\ sess[s].relay = "read"
    /\ UNCHANGED env
    /\ IF sess[s].raw = "reset"
       THEN Upd(s, [sess[s] EXCEPT !.relay = "failed"])
       ELSE IF sess[s].rbuf # <<>>
       THEN LET chunk == ReadChunk(sess[s].rbuf)
                r == [sess[s] EXCEPT !.rbuf = Drop(@, Len(chunk)),
                                     !.readLog = Append(@, chunk)]
            IN  IF sess[s].ws = "open"
                THEN \E iv \in Urandom(sess[s]) : Upd(s, RelaySend(r, chunk, iv))
                ELSE Upd(s, [r EXCEPT !.relay = "failed"])
       ELSE /\ sess[s].raw \in {"eof", "closed"}
            /\ Upd(s, [sess[s] EXCEPT !.relay = "eof"])

\* Line 72: the send completes, or raises when the client connection is gone.
RelayDrain(s) ==
    /\ sess[s].relay = "drain"
    /\ UNCHANGED env
    /\ Upd(s, [sess[s] EXCEPT !.relay = IF sess[s].ws = "open" THEN "read" ELSE "failed"])

HandlerStep(s) ==
    \/ HsRecv(s) \/ Connect(s) \/ SendOk(s) \/ OkDrain(s) \/ Loop(s)
    \/ Drain(s) \/ ErrSend(s) \/ Finally(s) \/ WaitClosed(s)

RelayStep(s) == RelayRead(s) \/ RelayDrain(s)

ServerStep(s) == Accept(s) \/ HandlerStep(s) \/ RelayStep(s)

Next ==
    \E s \in Sessions :
        \/ Accept(s)
        \/ HsRecv(s)
        \/ Connect(s)
        \/ SendOk(s)
        \/ OkDrain(s)
        \/ Loop(s)
        \/ Drain(s)
        \/ ErrSend(s)
        \/ Finally(s)
        \/ WaitClosed(s)
        \/ RelayRead(s)
        \/ RelayDrain(s)
        \/ \E m \in HandshakeFrames \cup RelayFrames : ClientSend(s, m)
        \/ \E how \in {"closedOK", "closedErr"} : ClientClose(s, how)
        \/ TargetSend(s)
        \/ \E how \in {"eof", "reset"} : TargetClose(s, how)

Spec == Init /\ [][Next]_vars

ConcSpec == ConcInit /\ [][Next]_vars

\* one connection, reduced traffic
LiveInit ==
    /\ CRYPTO_OK \in BOOLEAN
    /\ sess = [s \in Sessions |-> InitSession]
    /\ env = [conns |-> 1, msgs |-> LiveClientMsgs, bytes |-> LiveTargetBytes, few |-> TRUE]
    /\ CodecIdle

\* The event loop runs every task that is ready; the client and the target
\* are under no obligation.
FairSpec ==
    /\ LiveInit /\ [][Next]_vars
    /\ \A s \in Sessions : WF_vars(ServerStep(s))

TypeOK ==
    \A s \in Sessions :
        /\ sess[s].pc \in {"idle", "hs_recv", "connect", "send_ok", "ok_drain", "loop",
                            "drain", "err_send", "finally", "wait_closed", "done",
                            "crashed"}
        /\ sess[s].relay \in {"none", "read", "drain", "eof", "failed", "cancelled"}
        /\ sess[s].ws \in {"none", "open", "closedOK", "closedErr", "srvClosed"}
        /\ sess[s].raw \in {"none", "open", "eof", "reset", "closed"}

\* ------------------------------------------------------------------ claims
IsPrefix(a, b) == Len(a) <= Len(b) /\ SubSeq(b, 1, Len(a)) = a

RECURSIVE Flatten(_)
Flatten(ss) == IF ss = <<>> THEN <<>> ELSE Head(ss) \o Flatten(Tail(ss))

Closed(s) == sess[s].pc = "done"

AfterHandshake(s) == sess[s].pc \in {"err_send", "finally", "wait_closed", "done"}

IsErrorFrame(f) ==
    /\ f.kind = "err"
    /\ With(decrypt(f.wire, key, CRYPTO_OK), LAMBDA d :
           /\ d.ok
           /\ json_loads(d.val).ok
           /\ "error" \in DOMAIN json_loads(d.val).val)

\* C1: in a Relaying session, once the upstream loop has read end-of-stream
\* from the target and terminated, the handler leaves its downstream loop and
\* the client connection is closed, with no further action of the client.
C1_TargetCloseClosesClient ==
    \A s \in Sessions : (sess[s].relay = "eof") ~> Closed(s)

C3_FrameShapes ==
    \A s \in Sessions :
        LET f == sess[s].sent IN
        \/ f = <<>>
        \/ Len(f) = 1 /\ f[1].kind = "err"
        \/ f[1].kind = "ok" /\ \A i \in 2..Len(f) : f[i].kind = "data"

\* C4: after a valid handshake whose target cannot be connected, exactly one
\* error frame (JSON with an "error" field) is attempted, neither OK nor a
\* relay frame is ever sent, and the session reaches Closed whether or not
\* the error frame could be sent.
ConnectFailed(s) == sess[s].connAttempts > 0 /\ sess[s].raw = "none"

C4_Safety ==
    \A s \in Sessions :
        ConnectFailed(s) =>
            /\ sess[s].hs = "ok"
            /\ AfterHandshake(s)
            /\ sess[s].relay = "none"
            /\ sess[s].errAttempts = (IF sess[s].pc = "err_send" THEN 0 ELSE 1)
            /\ Len(sess[s].sent) <= sess[s].errAttempts
            /\ \A i \in 1..Len(sess[s].sent) : IsErrorFrame(sess[s].sent[i])

C4_ConnectError ==
    /\ []C4_Safety
    /\ \A s \in Sessions : ConnectFailed(s) ~> Closed(s)

C4_Witness ==
    \E s \in Sessions :
        /\ ConnectFailed(s) /\ Closed(s)
        /\ Len(sess[s].sent) = 1 /\ IsErrorFrame(sess[s].sent[1])
        /\ sess[s].target.port = 80

\* C5: the decrypted payloads of the relay frames sent to the client are, one
\* frame per chunk and in order, the chunks read from the raw connection
\* (all of them, or all but the last when its send failed), and the bytes
\* read are a prefix of what the target wrote.
DataFrames(s) == SelectSeq(sess[s].sent, LAMBDA f : f.kind = "data")

TargetStream(s) == [i \in 1..sess[s].tcount |-> 64 + i]

C5_UpstreamFidelity ==
    \A s \in Sessions :
        LET d == DataFrames(s)
            p == [i \in 1..Len(d) |-> decrypt(d[i].wire, key, CRYPTO_OK)]
        IN  /\ \A i \in 1..Len(d) : p[i].ok
            /\ Len(d) <= Len(sess[s].readLog)
            /\ Len(sess[s].readLog) <= Len(d) + 1
            /\ \A i \in 1..Len(d) : p[i].val = sess[s].readLog[i]
            /\ IsPrefix(Flatten(sess[s].readLog), TargetStream(s))
            /\ Flatten(sess[s].readLog) \o sess[s].rbuf = TargetStream(s)

C5_Witness ==
    \E s \in Sessions :
        /\ CRYPTO_OK
        /\ Len(DataFrames(s)) = 2
        /\ Flatten(sess[s].readLog) = <<65, 66>>

\* C6: the bytes handed to the raw connection are the decrypted payloads of
\* the binary messages received in the relay loop, in receive order, and a
\* message is received only when the previous payload has been drained.
RECURSIVE Payload(_)
Payload(ms) ==
    IF ms = <<>> THEN <<>>
    ELSE LET m == Head(ms)
             d == decrypt(m.data, key, CRYPTO_OK)
         IN  (IF m.bin /\ d.ok THEN d.val ELSE <<>>) \o Payload(Tail(ms))

C6_Order ==
    \A s \in Sessions :
        /\ IsPrefix(sess[s].rawOut, Payload(sess[s].recvd))
        /\ sess[s].pc \in {"loop", "drain"} =>
               sess[s].rawOut \o sess[s].pending = Payload(sess[s].recvd)
        /\ sess[s].pc # "drain" => sess[s].pending = <<>>

C6_DrainBeforeNext ==
    \A s \in Sessions :
        sess'[s].recvd # sess[s].recvd => sess[s].pending = <<>>

C6_DownstreamFidelity == []C6_Order /\ [][C6_DrainBeforeNext]_vars

C6_Witness ==
    \E s \in Sessions :
        /\ CRYPTO_OK
        /\ Len(sess[s].recvd) = 2
        /\ sess[s].rawOut = <<10, 20, 21>>

\* C7: a failure in one session leaves every other session's record (state,
\* connection handles, relayed data) unchanged, and the listener still
\* accepts the next connection.
Failing(s) ==
    /\ sess'[s] # sess[s]
    /\ \/ sess[s].pc \in {"err_send", "finally", "wait_closed"}
       \/ sess'[s].pc \in {"err_send", "crashed"}
       \/ sess'[s].relay = "failed"

C7_OthersUnchanged ==
    \A s \in Sessions :
        Failing(s) => \A t \in Sessions \ {s} : sess'[t] = sess[t]

C7_ListenerAccepts ==
    \A t \in Sessions :
        (/\ sess[t].pc = "idle"
         /\ env.conns > 0
         /\ \A u \in Sessions : u < t => sess[u].pc # "idle") => ENABLED Accept(t)

C9_ShortInputRaisesInEveryMode ==
    \A s \in Sessions :
        /\ (sess[s].lastDec.n >= 0 /\ sess[s].lastDec.n < IVSize) => ~sess[s].lastDec.ok
        /\ sess[s].pc # "crashed"

\* C9 (amended): in encrypted mode decrypt of an input shorter than the IV
\* (16 bytes) raises instead of returning data; in plaintext-fallback mode
\* decrypt returns its input whatever its length.  A decrypt error is handled
\* inside the session that received the frame and never leaves it.
C9_ShortInputRaisesWhenEncrypted ==
    \A s \in Sessions :
        /\ (sess[s].lastDec.n >= 0 /\ sess[s].lastDec.n < IVSize) =>
               (sess[s].lastDec.ok <=> ~CRYPTO_OK)
        /\ (sess[s].lastDec.n >= 0 /\ ~CRYPTO_OK) => sess[s].lastDec.ok
        /\ (sess[s].lastDec.n >= 0 /\ ~sess[s].lastDec.ok) => AfterHandshake(s)
        /\ sess[s].pc # "crashed"

C9_Witness ==
    \E s \in Sessions :
        /\ CRYPTO_OK
        /\ sess[s].lastDec = [n |-> 3, ok |-> FALSE]
        /\ sess[s].hs = "ok"
        /\ Closed(s)

\* C10: no session is Closed while its upstream sub-task (relay_task) is
\* still running un-cancelled.
C10_RelayStoppedWhenClosed ==
    \A s \in Sessions : Closed(s) => sess[s].relay \notin {"read", "drain"}

\* C11: from the start of the upstream sub-task (relay_to_client) until it
\* has terminated, every frame put on the client connection is a relay frame
\* of that sub-task (the handler sends none), and bytes reach the raw
\* connection only by the handler's drain (the sub-task writes none).
RelayAlive(s) == sess[s].relay \in {"read", "drain"}

C11_Step ==
    \A s \in Sessions :
        RelayAlive(s) =>
            /\ sess'[s].sent # sess[s].sent =>
                   /\ Len(sess'[s].sent) = Len(sess[s].sent) + 1
                   /\ sess'[s].sent[Len(sess'[s].sent)].kind = "data"
            /\ sess'[s].rawOut # sess[s].rawOut => sess[s].pc = "drain"

C11_ExclusiveDirections == [][C11_Step]_vars

\* C12: a session moves through AwaitingHandshake, Connecting, Relaying,
\* Closed one way only: a step keeps the state, moves to the next state, or
\* (on a failure or the end of the relay) enters the closing path, which runs
\* except clause, finally, return in that order; nothing leaves Closed.
StateOf(pc) ==
    CASE pc = "idle" -> "Accepting"
      [] pc = "hs_recv" -> "AwaitingHandshake"
      [] pc \in {"connect", "send_ok", "ok_drain"} -> "Connecting"
      [] pc \in {"loop", "drain"} -> "Relaying"
      [] OTHER -> "Closed"

StateRank(pc) ==
    CASE StateOf(pc) = "Accepting" -> 0
      [] StateOf(pc) = "AwaitingHandshake" -> 1
      [] StateOf(pc) = "Connecting" -> 2
      [] StateOf(pc) = "Relaying" -> 3
      [] OTHER -> 4

ClosingRank(pc) ==
    CASE pc = "err_send" -> 1
      [] pc = "finally" -> 2
      [] pc = "wait_closed" -> 3
      [] pc = "done" -> 4
      [] OTHER -> 0

C12_Step ==
    \A s \in Sessions :
        LET a == StateRank(sess[s].pc)
            b == StateRank(sess'[s].pc)
        IN  /\ b \in {a, a + 1, 4}
            /\ ClosingRank(sess[s].pc) <= ClosingRank(sess'[s].pc)
            /\ Closed(s) => sess'[s].pc = "done"

C12_OneWayStates == [][C12_Step]_vars

C12_Witness ==
    \E s \in Sessions :
        /\ Closed(s)
        /\ sess[s].recvd # <<>>
        /\ sess[s].errAttempts = 1

\* C13: OK is sent at most once per session and only once the target
\* connection has been opened; as long as OK has not been sent no relay frame
\* is sent, the upstream sub-task is not running, no client message has been
\* taken by the relay loop and nothing has been written to the raw connection.
OkFrames(s) == SelectSeq(sess[s].sent, LAMBDA f : f.kind = "ok")

C13_State ==
    \A s \in Sessions :
        /\ Len(OkFrames(s)) <= 1
        /\ OkFrames(s) # <<>> =>
               /\ sess[s].sent[1].kind = "ok"
               /\ sess[s].raw # "none"
               /\ sess[s].connAttempts = 1
               /\ Connectable(sess[s].target)
        /\ OkFrames(s) = <<>> =>
               /\ DataFrames(s) = <<>>
               /\ sess[s].relay = "none"
               /\ sess[s].recvd = <<>>
               /\ sess[s].pending = <<>>
               /\ sess[s].rawOut = <<>>

C13_Step ==
    \A s \in Sessions :
        Len(OkFrames(s))' > Len(OkFrames(s)) =>
            /\ sess[s].raw # "none"
            /\ sess[s].pc = "send_ok"
            /\ sess[s].sent = <<>>

C13_OkOnceAfterConnect == []C13_State /\ [][C13_Step]_vars

C13_Witness ==
    \E s \in Sessions :
        /\ Len(sess[s].sent) = 2
        /\ sess[s].sent[1].kind = "ok" /\ sess[s].sent[2].kind = "data"
        /\ sess[s].rawOut # <<>>

\* C14: for a session that opened a raw connection, the server closes the
\* client connection only after it closed the raw connection, whatever ended
\* the session (client close, failed OK send, relay error), and the handler
\* still returns with both connections closed when closing the raw
\* connection raised.
RawOpened(s) == sess[s].raw # "none"

Closing(s) == sess[s].pc \in {"err_send", "finally", "wait_closed"}

C14_State ==
    \A s \in Sessions :
        /\ sess[s].pc # "crashed"
        /\ (RawOpened(s) /\ sess[s].ws = "srvClosed") => sess[s].raw = "closed"
        /\ (RawOpened(s) /\ Closed(s)) =>
               /\ sess[s].raw = "closed"
               /\ sess[s].ws \in {"srvClosed", "closedOK", "closedErr"}

C14_Step ==
    \A s \in Sessions :
        (RawOpened(s) /\ sess'[s].ws = "srvClosed" /\ sess[s].ws # "srvClosed") =>
            sess[s].raw = "closed"

DecodeFailed(s) ==
    /\ sess[s].recvd # <<>>
    /\ LET m == sess[s].recvd[Len(sess[s].recvd)]
       IN  m.bin /\ ~decrypt(m.data, key, CRYPTO_OK).ok

C15_State ==
    \A s \in Sessions :
        DecodeFailed(s) =>
            /\ AfterHandshake(s)
            /\ sess[s].pending = <<>>
            /\ sess[s].rawOut = Payload(sess[s].recvd)
            /\ sess[s].lastDec = [n |-> Len(sess[s].recvd[Len(sess[s].recvd)].data),
                                  ok |-> FALSE]
            /\ ~Closed(s) => ENABLED HandlerStep(s)

C15_Step ==
    \A s \in Sessions :
        DecodeFailed(s) =>
            /\ sess'[s].recvd = sess[s].recvd
            /\ sess'[s].rawOut = sess[s].rawOut
            /\ sess'[s].lastDec = sess[s].lastDec

C15_DecodeFailureFatal == []C15_State /\ [][C15_Step]_vars

C15_Witness ==
    \E s \in Sessions :
        /\ DecodeFailed(s)
        /\ Closed(s)
        /\ sess[s].inbox # <<>>
        /\ sess[s].raw = "closed"

\* C16: a session enters Connecting, and calls open_connection, only with a
\* destination whose host is a non-empty string and whose port is in
\* 1..65535.
C16_ValidatedTarget ==
    \A s \in Sessions :
        (StateOf(sess[s].pc) = "Connecting" \/ sess[s].connAttempts > 0) =>
            /\ sess[s].target.host # <<>>
            /\ sess[s].target.port \in 1..65535

\* C17: every relay frame sent to the client carries at least one byte of
\* target data: a zero-length read is never logged as a chunk and never
\* framed, it ends the upstream loop without a frame.
C17_State ==
    \A s \in Sessions :
        /\ \A i \in 1..Len(sess[s].readLog) : sess[s].readLog[i] # <<>>
        /\ \A i \in 1..Len(sess[s].sent) :
               sess[s].sent[i].kind = "data" =>
                   /\ decrypt(sess[s].sent[i].wire, key, CRYPTO_OK).ok
                   /\ decrypt(sess[s].sent[i].wire, key, CRYPTO_OK).val # <<>>

C17_Step ==
    \A s \in Sessions :
        (sess[s].relay = "read" /\ sess'[s].relay = "eof") =>
            /\ sess[s].rbuf = <<>>
            /\ sess'[s].sent = sess[s].sent
            /\ sess'[s].readLog = sess[s].readLog

C17_NoEmptyRelayFrame == []C17_State /\ [][C17_Step]_vars

C17_Witness ==
    \E s \in Sessions :
        /\ sess[s].relay = "eof"
        /\ Len(DataFrames(s)) = 1
        /\ sess[s].ws = "open"
        /\ sess[s].tcount = 2

\* C18: under fair scheduling of the server's tasks, a session that is
\* Relaying when its client connection is closed (normally or by an error)
\* eventually is Closed with its raw connection closed.
ClientGone(s) ==
    /\ StateOf(sess[s].pc) = "Relaying"
    /\ sess[s].ws \in {"closedOK", "closedErr"}

TookText(s) ==
    /\ Len(sess'[s].recvd) = Len(sess[s].recvd) + 1
    /\ ~sess'[s].recvd[Len(sess'[s].recvd)].bin

C19_Step ==
    \A s \in Sessions :
        TookText(s) =>
            /\ sess[s].pc = "loop" /\ sess'[s].pc = "loop"
            /\ sess'[s].lastDec = sess[s].lastDec
            /\ sess'[s].pending = <<>>
            /\ sess'[s].rawOut = sess[s].rawOut
            /\ sess'[s].sent = sess[s].sent
            /\ sess'[s].errAttempts = sess[s].errAttempts
            /\ sess'[s].relay = sess[s].relay
            /\ sess'[s].raw = sess[s].raw

\* the bytes written are the payloads of the binary messages alone
C19_State ==
    \A s \in Sessions :
        StateOf(sess[s].pc) = "Relaying" =>
            /\ sess[s].rawOut \o sess[s].pending =
                   Payload(SelectSeq(sess[s].recvd, LAMBDA m : m.bin))
            /\ (sess[s].pc = "loop" /\ sess[s].inbox # <<>>) => ENABLED Loop(s)

C19_TextSkipped == [][C19_Step]_vars /\ []C19_State

C19_Witness ==
    \E s \in Sessions :
        /\ Len(sess[s].recvd) = 2
        /\ ~sess[s].recvd[1].bin
        /\ sess[s].recvd[2].bin
        /\ sess[s].rawOut = <<20, 21>>
        /\ sess[s].pc = "loop"
        /\ \A i \in 1..Len(sess[s].sent) : sess[s].sent[i].kind # "err"

====
